---- MODULE Spec2Model ----
(***************************************************************************)
(* A model of the simulation/evolution engine GameEngine of scp-escape     *)
(* (lib/game-engine.ts, lib/neural-network.ts, types/index.ts).            *)
(*                                                                         *)
(* Numbers.  The engine computes in IEEE doubles; the model computes in    *)
(* integers:                                                               *)
(*   - positions are whole map units;                                      *)
(*   - rotation is counted in quarter turns (pi/2), so that cos and sin    *)
(*     are -1, 0 or 1;                                                     *)
(*   - fitness is counted in thousandths (FitUnit), and the two shaping    *)
(*     terms use the distance rounded down to a whole unit;                *)
(*   - a door's interactionProgress is counted in steps of                 *)
(*     1/doorInteractionTime;                                              *)
(*   - outputs[0] and outputs[3] of the network are counted in tenths.     *)
(* The network's forward pass is not computed: the outputs of a tick are   *)
(* drawn from the set Outputs.                                             *)
(***************************************************************************)
EXTENDS Integers, Sequences, FiniteSets, TLC

\* ------------------------------------------------------------ constants
visionRayCount == 8
gridSize == 14
doorInteractionTime == 20
doorInteractionRange == 3
orbCollectionRange == 2
roomExplorationReward == 100
doorInteractionReward == 30
DefaultBatchSize == 10
MaxBatchSize == 50
scpSpeed == 4
scientistSpeed == 5
FitUnit == 1000
MaxTimeStep == 1000
DoorRewardGap == 50
OrbReward == 50
CombatDamage == 10
CombatReward == 10
MeleeRange == 2
ScientistHealth == 100
ScpHealth == 200

\* ------------------------------------------------------------ bounds
\* Ticks a run of the model executes after its initial state.
MaxTicks == 2
\* Elements of each weight layer and of each bias layer that are tracked.
NetCells == 1
\* Largest inputSize and hiddenSize of the networks forward is tried on.
MaxLayerSize == 2

Null == << >>

\* ------------------------------------------------------------ helpers
Min(a, b) == IF a < b THEN a ELSE b
Max(a, b) == IF a > b THEN a ELSE b
Abs(a) == IF a < 0 THEN -a ELSE a

\* The remainder a % n of JavaScript: the sign of the dividend.
JsRem(a, n) == IF a >= 0 THEN a % n ELSE -((-a) % n)

\* Math.ceil(a / b) for b > 0.
CeilDiv(a, b) == IF a >= 0 THEN (a + b - 1) \div b ELSE -((-a) \div b)

ISqrt(n) == CHOOSE r \in 0..n : r * r <= n /\ (r + 1) * (r + 1) > n

Range(s) == {s[i] : i \in DOMAIN s}

RECURSIVE SeqOfSet(_)
\* The elements of a set of integers in increasing order.
SeqOfSet(S) ==
  IF S = {} THEN << >>
  ELSE LET m == CHOOSE x \in S : \A y \in S : x <= y
       IN <<m>> \o SeqOfSet(S \ {m})

RECURSIVE Concat(_)
Concat(ss) == IF ss = << >> THEN << >> ELSE Head(ss) \o Concat(Tail(ss))

Pos(x, y) == [x |-> x, y |-> y]

Dist2(p, q) == (q.x - p.x) * (q.x - p.x) + (q.y - p.y) * (q.y - p.y)

\* distance(p1, p2) < r, decided on the squares.
distanceLt(p, q, r) == Dist2(p, q) < r * r

\* distance(p1, p2) rounded down to a whole unit.
distance(p, q) == ISqrt(Dist2(p, q))

\* ------------------------------------------------------------ geometry
\* The values of "for (x = spacing; x < mapSize; x += spacing)".
GridLines(mapSize) == {x \in 1..(mapSize - 1) : x % gridSize = 0}

\* The values of 0..mapSize-1 with v % spacing === spacing / 2.
DoorSlots(mapSize) == {y \in 0..(mapSize - 1) : y % gridSize = gridSize \div 2}

IsWall(mapSize, x, y) ==
  \/ x \in GridLines(mapSize) /\ y \in 0..(mapSize - 1) /\ y \notin DoorSlots(mapSize)
  \/ y \in GridLines(mapSize) /\ x \in 0..(mapSize - 1) /\ x \notin DoorSlots(mapSize)
  \/ x \in {0, mapSize - 1} /\ y \in 0..(mapSize - 1)
  \/ y \in {0, mapSize - 1} /\ x \in 0..(mapSize - 1)

NewDoor(x, y, vertical, open) ==
  [position |-> Pos(x, y), isOpen |-> open, isVertical |-> vertical,
   interactionProgress |-> 0, interactingAgent |-> Null]

\* The door positions in the order generateGridMaze pushes them; open is the
\* set of indices whose Math.random() > 0.5 draw came out true.
DoorPositions(mapSize) ==
  LET xs == SeqOfSet(GridLines(mapSize))
      ys == SeqOfSet(DoorSlots(mapSize))
      vert == Concat([i \in 1..Len(xs) |->
                 [j \in 1..Len(ys) |-> <<xs[i], ys[j], TRUE>>]])
      horiz == Concat([i \in 1..Len(xs) |->
                 [j \in 1..Len(ys) |-> <<ys[j], xs[i], FALSE>>]])
  IN vert \o horiz

generateGridMaze(mapSize, open) ==
  LET ps == DoorPositions(mapSize)
  IN [i \in 1..Len(ps) |-> NewDoor(ps[i][1], ps[i][2], ps[i][3], i \in open)]

generateOrbs(mapSize) ==
  LET cs == SeqOfSet({x \in 0..(mapSize - 1) :
                        /\ x >= gridSize \div 2
                        /\ x < mapSize - gridSize \div 2
                        /\ x % gridSize = gridSize \div 2})
  IN Concat([i \in 1..Len(cs) |->
       [j \in 1..Len(cs) |->
          [id |-> (i - 1) * Len(cs) + (j - 1),
           position |-> Pos(cs[i], cs[j]), collected |-> FALSE]]])

Checkpoints(mapSize) == <<Pos(mapSize - 5, 5), Pos(mapSize - 5, mapSize - 5)>>

\* ------------------------------------------------------------ networks
(***************************************************************************)
(* A NeuralNetwork holds weights (number[][][]) and biases (number[][]).   *)
(* Of each weight layer and each bias layer the model tracks NetCells      *)
(* elements.  JavaScript arrays are objects: the inner arrays of biases    *)
(* live in the store `heap` and a network holds references to them, so     *)
(* that two networks can hold the same array.  Weights are only ever       *)
(* copied deeply or replaced whole, and are kept by value.                 *)
(***************************************************************************)
Layers == 1..2

ZeroLayer == [c \in 1..NetCells |-> 0]

ConstLayer(v) == [c \in 1..NetCells |-> v]

\* The smallest n references that heap does not use.
RECURSIVE FreshRefs(_, _)
FreshRefs(used, n) ==
  IF n = 0 THEN << >>
  ELSE LET r == CHOOSE x \in 1..(Cardinality(used) + 1) :
                   x \notin used /\ \A y \in 1..(x - 1) : y \in used
       IN <<r>> \o FreshRefs(used \cup {r}, n - 1)

\* new NeuralNetwork(...): weights drawn at random (w), biases two new
\* arrays of zeros.  Returns the network and the heap with its arrays.
NewNetwork(heap, w) ==
  LET refs == FreshRefs(DOMAIN heap, 2)
  IN [network |-> [weights |-> <<ConstLayer(w), ConstLayer(w)>>, biases |-> refs],
      heap |-> [r \in DOMAIN heap \cup Range(refs) |->
                  IF r \in DOMAIN heap THEN heap[r] ELSE ZeroLayer]]

\* The biases of a network, read through its references.
BiasValues(heap, network) == [l \in Layers |-> heap[network.biases[l]]]

AddLayer(a, d) == [c \in 1..NetCells |-> a[c] + d[c]]

\* mutate(rate): mut gives, for each weight and bias, the perturbation that
\* was drawn (0: the element's Math.random() < mutationRate came out false).
\* The weights are the network's own; the biases are written in place, into
\* whichever arrays the network refers to.
mutate(heap, network, mut) ==
  LET h1 == [heap EXCEPT ![network.biases[1]] = AddLayer(@, mut.biases[1])]
      h2 == [h1 EXCEPT ![network.biases[2]] = AddLayer(@, mut.biases[2])]
  IN [network |-> [network EXCEPT
                     !.weights = [l \in Layers |-> AddLayer(@[l], mut.weights[l])]],
      heap |-> h2]

\* The output size of every network the engine constructs.
outputSize == 4

\* new NeuralNetwork(inputSize, hiddenSize, outputSize) with all its cells:
\* weights[1] has inputSize rows of hiddenSize weights, weights[2] hiddenSize
\* rows of outputSize weights; draw stands for the Math.random() values (1:
\* all weights 1; 2: signs alternating), and bias for what mutate has added
\* to the biases since.
NeuralNetwork(inSize, hidSize, outSize, draw, bias) ==
  LET w(j, c) == IF draw = 1 \/ (j + c) % 2 = 0 THEN 1 ELSE -1
  IN [inputSize |-> inSize, hiddenSize |-> hidSize, outputSize |-> outSize,
      weights |-> <<[j \in 1..inSize |-> [c \in 1..hidSize |-> w(j, c)]],
                    [j \in 1..hidSize |-> [c \in 1..outSize |-> w(j, c)]]>>,
      biases |-> <<[c \in 1..hidSize |-> bias], [c \in 1..outSize |-> bias]>>]

relu(x) == Max(0, x)

\* vals.reduce((sum, val, j) => sum + val * rows[j][c], 0)
Dot(vals, rows, c) ==
  LET sum[j \in 0..Len(vals)] ==
        IF j = 0 THEN 0 ELSE sum[j - 1] + vals[j] * rows[j][c]
  IN sum[Len(vals)]

\* forward with the length test reduced to inputs.length < inputSize;
\* inputs beyond inputSize are ignored.
forwardTooShortOnly(network, inputs) ==
  IF Len(inputs) < network.inputSize
  THEN [threw |-> TRUE, error |-> "Error", outputs |-> << >>]
  ELSE LET used == SubSeq(inputs, 1, network.inputSize)
           hidden == [c \in 1..network.hiddenSize |->
                        relu(Dot(used, network.weights[1], c)
                               + network.biases[1][c])]
       IN [threw |-> FALSE, error |-> "",
           outputs |-> [c \in 1..network.outputSize |->
                          Dot(hidden, network.weights[2], c)
                            + network.biases[2][c]]]

\* forward(inputs): the outputs, or the error thrown: the Error of the
\* length test, or the TypeError of weights[0][0] or weights[1][0] being
\* undefined in a network without inputs or without hidden cells.
forward(network, inputs) ==
  IF Len(inputs) # network.inputSize
  THEN [threw |-> TRUE, error |-> "Error", outputs |-> << >>]
  ELSE IF network.weights[1] = << >> \/ network.weights[2] = << >>
  THEN [threw |-> TRUE, error |-> "TypeError", outputs |-> << >>]
  ELSE LET hidden == [c \in 1..Len(network.weights[1][1]) |->
                        relu(Dot(inputs, network.weights[1], c)
                               + network.biases[1][c])]
       IN [threw |-> FALSE, error |-> "",
           outputs |-> [c \in 1..Len(network.weights[2][1]) |->
                          Dot(hidden, network.weights[2], c)
                            + network.biases[2][c]]]

\* ------------------------------------------------------------ agents
StartX(mapSize, type) == IF type = "scientist" THEN 5 ELSE mapSize - 5
StartRotation(type) == IF type = "scientist" THEN 0 ELSE 2
StartHealth(type) == IF type = "scientist" THEN ScientistHealth ELSE ScpHealth

InitialId(type, index) == <<type, "seed", index, 0>>

\* `${parent.type}-${Math.random()}`: the draws are taken to be distinct, and
\* are named by the generation the offspring belongs to and its index.
OffspringId(type, generation, k) == <<type, "rand", generation, k>>

NewAgent(id, type, x, y, network) ==
  [id |-> id, position |-> Pos(x, y), rotation |-> StartRotation(type),
   type |-> type, health |-> StartHealth(type), network |-> network,
   fitness |-> 0, isInteracting |-> FALSE, collectedOrbs |-> {},
   visitedRooms |-> {}, lastDoorInteraction |-> 0]

createInitialAgent(mapSize, heap, type, index, w) ==
  LET n == NewNetwork(heap, w)
  IN [agent |-> NewAgent(InitialId(type, index), type, StartX(mapSize, type),
                         5 + index * 2, n.network),
      heap |-> n.heap]

\* createInitialAgent for index 0..n-1, appended to agents; ws[i] is the
\* weight draw of the i-th new network.
RECURSIVE SeedAgents(_, _, _, _, _, _)
SeedAgents(mapSize, agents, heap, type, n, ws) ==
  IF n = 0 THEN [agents |-> agents, heap |-> heap]
  ELSE LET prev == SeedAgents(mapSize, agents, heap, type, n - 1, ws)
           a == createInitialAgent(mapSize, prev.heap, type, n - 1, ws[n])
       IN [agents |-> Append(prev.agents, a.agent), heap |-> a.heap]

HalfPopulation(populationSize) == populationSize \div 2

\* The GameState after the constructor, and the heap of bias arrays.
initializeGame(mapSize, populationSize, open, ws) ==
  LET half == HalfPopulation(populationSize)
      sci == SeedAgents(mapSize, << >>, << >>, "scientist", half, ws)
      all == SeedAgents(mapSize, sci.agents, sci.heap, "scp", half,
                        [i \in 1..half |-> ws[half + i]])
  IN [state |-> [agents |-> all.agents,
                 doors |-> generateGridMaze(mapSize, open),
                 orbs |-> generateOrbs(mapSize),
                 generation |-> 0,
                 timeStep |-> 0],
      heap |-> all.heap]

\* ------------------------------------------------------------ one tick
(***************************************************************************)
(* The operators below take and return the GameState st (agents, doors,    *)
(* orbs, generation, timeStep); walls and checkpoints follow from mapSize. *)
(* outputs = [speed, turn, interact]: outputs[0] (a multiple of 10, so     *)
(* that speed is whole), (outputs[2] - outputs[1]) * 0.1 in quarter turns, *)
(* and outputs[3] in tenths.                                               *)
(***************************************************************************)
\* updateDoors with > for >= in its test: a door toggles one tick late.
updateDoorsLate(st) ==
  [st EXCEPT !.doors =
     [i \in DOMAIN @ |->
        LET door == @[i]
            progress == door.interactionProgress + 1
        IN IF door.interactingAgent # Null
           THEN IF progress > doorInteractionTime
                THEN [door EXCEPT !.isOpen = ~@, !.interactionProgress = 0,
                                  !.interactingAgent = Null]
                ELSE [door EXCEPT !.interactionProgress = progress]
           ELSE door]]

\* updateDoors whose toggle does not reset the progress.
updateDoorsKeepsProgress(st) ==
  [st EXCEPT !.doors =
     [i \in DOMAIN @ |->
        LET door == @[i]
            progress == door.interactionProgress + 1
        IN IF door.interactingAgent # Null
           THEN IF progress >= doorInteractionTime
                THEN [door EXCEPT !.isOpen = ~@, !.interactionProgress = progress,
                                  !.interactingAgent = Null]
                ELSE [door EXCEPT !.interactionProgress = progress]
           ELSE door]]

updateDoors(st) ==
  [st EXCEPT !.doors =
     [i \in DOMAIN @ |->
        LET door == @[i]
            progress == door.interactionProgress + 1
        IN IF door.interactingAgent # Null
           THEN IF progress >= doorInteractionTime
                THEN [door EXCEPT !.isOpen = ~@, !.interactionProgress = 0,
                                  !.interactingAgent = Null]
                ELSE [door EXCEPT !.interactionProgress = progress]
           ELSE door]]

Cos(rotation) == CASE rotation % 4 = 0 -> 1 [] rotation % 4 = 2 -> -1 [] OTHER -> 0
Sin(rotation) == CASE rotation % 4 = 1 -> 1 [] rotation % 4 = 3 -> -1 [] OTHER -> 0

SpeedMultiplier(type) == IF type = "scp" THEN scpSpeed ELSE scientistSpeed

wouldCollide(mapSize, st, x, y) ==
  \/ IsWall(mapSize, x, y)
  \/ \E i \in DOMAIN st.doors :
       ~st.doors[i].isOpen /\ st.doors[i].position = Pos(x, y)

Clamp(mapSize, v) == Max(1, Min(mapSize - 1, v))

\* moveAgent without the early return of an interacting agent.
moveAgentWhileInteracting(mapSize, st, i, outputs) ==
  LET agent == st.agents[i]
      speed == (outputs.speed * SpeedMultiplier(agent.type)) \div 10
      rotation == JsRem(agent.rotation + outputs.turn, 4)
      newX == agent.position.x + Cos(rotation) * speed
      newY == agent.position.y + Sin(rotation) * speed
  IN [st EXCEPT !.agents[i] =
             [agent EXCEPT
                !.rotation = rotation,
                !.position = IF wouldCollide(mapSize, st, newX, newY) THEN @
                             ELSE Pos(Clamp(mapSize, newX), Clamp(mapSize, newY))]]

moveAgent(mapSize, st, i, outputs) ==
  LET agent == st.agents[i]
      speed == (outputs.speed * SpeedMultiplier(agent.type)) \div 10
      rotation == JsRem(agent.rotation + outputs.turn, 4)
      newX == agent.position.x + Cos(rotation) * speed
      newY == agent.position.y + Sin(rotation) * speed
  IN IF agent.isInteracting THEN st
     ELSE [st EXCEPT !.agents[i] =
             [agent EXCEPT
                !.rotation = rotation,
                !.position = IF wouldCollide(mapSize, st, newX, newY) THEN @
                             ELSE Pos(Clamp(mapSize, newX), Clamp(mapSize, newY))]]

getRoomKey(position) == <<position.x \div gridSize, position.y \div gridSize>>

\* NearestEligibleDoor without the test of interactingAgent: a door claimed
\* by another agent is eligible too.
NearestDoorAnyClaim(st, agent) ==
  LET eligible == {d \in DOMAIN st.doors :
                     distanceLt(agent.position, st.doors[d].position,
                                doorInteractionRange)}
  IN IF eligible = {} THEN 0
     ELSE CHOOSE d \in eligible :
            \A e \in eligible :
              \/ Dist2(agent.position, st.doors[d].position)
                   < Dist2(agent.position, st.doors[e].position)
              \/ /\ Dist2(agent.position, st.doors[d].position)
                      = Dist2(agent.position, st.doors[e].position)
                 /\ d <= e

\* The reduce of handleDoorInteraction: the index of the first door, among
\* those unclaimed or claimed by the agent, that is within
\* doorInteractionRange and nearer than every eligible door before it;
\* 0 when there is none.
NearestEligibleDoor(st, agent) ==
  LET eligible == {d \in DOMAIN st.doors :
                     /\ st.doors[d].interactingAgent \in {Null, agent.id}
                     /\ distanceLt(agent.position, st.doors[d].position,
                                   doorInteractionRange)}
  IN IF eligible = {} THEN 0
     ELSE CHOOSE d \in eligible :
            \A e \in eligible :
              \/ Dist2(agent.position, st.doors[d].position)
                   < Dist2(agent.position, st.doors[e].position)
              \/ /\ Dist2(agent.position, st.doors[d].position)
                      = Dist2(agent.position, st.doors[e].position)
                 /\ d <= e

\* doors.find(d => d.interactingAgent === agent.id): its index, or 0.
InteractingDoor(st, agent) ==
  LET held == {d \in DOMAIN st.doors : st.doors[d].interactingAgent = agent.id}
  IN IF held = {} THEN 0 ELSE CHOOSE d \in held : \A e \in held : d <= e

DoorRewardDue(st, agent) ==
  st.timeStep - agent.lastDoorInteraction > DoorRewardGap

\* handleDoorInteraction whose release leaves the door's progress as it is.
handleDoorInteractionKeepsProgress(st, i, outputs) ==
  LET agent == st.agents[i]
      nearestDoor == NearestEligibleDoor(st, agent)
      interactingDoor == InteractingDoor(st, agent)
  IN IF outputs.interact > 5
     THEN IF nearestDoor # 0
          THEN [st EXCEPT
                  !.doors[nearestDoor].interactingAgent = agent.id,
                  !.agents[i] =
                    [agent EXCEPT
                       !.isInteracting = TRUE,
                       !.fitness = IF DoorRewardDue(st, agent)
                                   THEN @ + doorInteractionReward * FitUnit ELSE @,
                       !.lastDoorInteraction = IF DoorRewardDue(st, agent)
                                               THEN st.timeStep ELSE @]]
          ELSE st
     ELSE [st EXCEPT
             !.doors = IF interactingDoor = 0 THEN @
                       ELSE [@ EXCEPT ![interactingDoor] =
                               [@ EXCEPT !.interactingAgent = Null]],
             !.agents[i].isInteracting = FALSE]

handleDoorInteraction(st, i, outputs) ==
  LET agent == st.agents[i]
      nearestDoor == NearestEligibleDoor(st, agent)
      interactingDoor == InteractingDoor(st, agent)
  IN IF outputs.interact > 5
     THEN IF nearestDoor # 0
          THEN [st EXCEPT
                  !.doors[nearestDoor].interactingAgent = agent.id,
                  !.agents[i] =
                    [agent EXCEPT
                       !.isInteracting = TRUE,
                       !.fitness = IF DoorRewardDue(st, agent)
                                   THEN @ + doorInteractionReward * FitUnit ELSE @,
                       !.lastDoorInteraction = IF DoorRewardDue(st, agent)
                                               THEN st.timeStep ELSE @]]
          ELSE st
     ELSE [st EXCEPT
             !.doors = IF interactingDoor = 0 THEN @
                       ELSE [@ EXCEPT ![interactingDoor] =
                               [@ EXCEPT !.interactingAgent = Null,
                                         !.interactionProgress = 0]],
             !.agents[i].isInteracting = FALSE]

\* handleOrbCollection without the test of the agent's own collected set.
handleOrbCollectionAgain(st, i) ==
  LET agent == st.agents[i]
      picked == {st.orbs[o].id : o \in
                   {o \in DOMAIN st.orbs :
                      /\ ~st.orbs[o].collected
                      /\ distanceLt(agent.position, st.orbs[o].position,
                                    orbCollectionRange)}}
  IN IF agent.type # "scientist" THEN st
     ELSE [st EXCEPT !.agents[i] =
             [agent EXCEPT !.collectedOrbs = @ \cup picked,
                           !.fitness = @ + Cardinality(picked) * OrbReward * FitUnit]]

handleOrbCollection(st, i) ==
  LET agent == st.agents[i]
      picked == {st.orbs[o].id : o \in
                   {o \in DOMAIN st.orbs :
                      /\ ~st.orbs[o].collected
                      /\ st.orbs[o].id \notin agent.collectedOrbs
                      /\ distanceLt(agent.position, st.orbs[o].position,
                                    orbCollectionRange)}}
  IN IF agent.type # "scientist" THEN st
     ELSE [st EXCEPT !.agents[i] =
             [agent EXCEPT !.collectedOrbs = @ \cup picked,
                           !.fitness = @ + Cardinality(picked) * OrbReward * FitUnit]]

MinOf(S) == CHOOSE x \in S : \A y \in S : x <= y

LivingScientists(st) ==
  {j \in DOMAIN st.agents :
     st.agents[j].type = "scientist" /\ st.agents[j].health > 0}

\* The reward for a room not visited before.
RoomReward(agent) ==
  IF getRoomKey(agent.position) \in agent.visitedRooms THEN 0
  ELSE roomExplorationReward * FitUnit

\* (1000 - minDist) / 1000, in thousandths.
CheckpointShaping(mapSize, agent) ==
  LET cps == Checkpoints(mapSize)
  IN FitUnit - MinOf({distance(agent.position, cps[c]) : c \in DOMAIN cps})

\* 0.5 while the nearest door is within doorInteractionRange.
DoorShaping(st, agent) ==
  IF \E d \in DOMAIN st.doors :
       distanceLt(agent.position, st.doors[d].position, doorInteractionRange)
  THEN FitUnit \div 2 ELSE 0

\* (100 - minDist) / 100, in thousandths; nothing when no scientist lives.
PursuitShaping(st, agent) ==
  IF LivingScientists(st) = {} THEN 0
  ELSE (100 - MinOf({distance(agent.position, st.agents[j].position) :
                       j \in LivingScientists(st)})) * (FitUnit \div 100)

\* updateFitness throws a TypeError at "nearestDoor.position" when the agent
\* is a scientist and the map has no door: doors.reduce(..., doors[0]) is
\* then undefined.
updateFitnessThrows(st, i) ==
  st.agents[i].type = "scientist" /\ Len(st.doors) = 0

\* The state updateFitness leaves, also when it throws: the room reward and
\* the checkpoint term are added before the door is read.
updateFitness(mapSize, st, i) ==
  LET agent == st.agents[i]
      room == getRoomKey(agent.position)
  IN [st EXCEPT !.agents[i] =
        [agent EXCEPT
           !.visitedRooms = @ \cup {room},
           !.fitness = @ + RoomReward(agent)
                         + (IF agent.type = "scientist"
                            THEN CheckpointShaping(mapSize, agent)
                                   + DoorShaping(st, agent)
                            ELSE PursuitShaping(st, agent))]]

\* ------------------------------------------------------------ vision
(***************************************************************************)
(* A ray is sampled every 0.5 up to visionRange.  Positions are whole and  *)
(* rotations quarter turns, so a sample point is known exactly up to the   *)
(* rounding of the cosines: coordinates are kept in units of 1 / (2 *      *)
(* Micro), the k-th sample of a ray being position + k * direction.        *)
(***************************************************************************)
visionRange == 10
\* Samples per unit of distance: step = 0.5.
StepsPerUnit == 2
\* Resolution of Math.cos and Math.sin in the model.
Micro == 1000000

Samples == 1..(visionRange * StepsPerUnit)

\* Math.cos and Math.sin of startAngle + angleStep * i, i = 0..7, in
\* millionths: the angles -45, -32.14, -19.29, -6.43, 6.43, ... 45 degrees.
RayCos == <<707107, 846724, 943883, 993712, 993712, 943883, 846724, 707107>>
RaySin == <<-707107, -532032, -330279, -111964, 111964, 330279, 532032, 707107>>

Rays == 1..visionRayCount

\* checkX and checkY of the k-th sample of ray r of the agent.
CheckX(agent, r, k) ==
  agent.position.x * StepsPerUnit * Micro
    + k * (Cos(agent.rotation) * RayCos[r] - Sin(agent.rotation) * RaySin[r])

CheckY(agent, r, k) ==
  agent.position.y * StepsPerUnit * Micro
    + k * (Sin(agent.rotation) * RayCos[r] + Cos(agent.rotation) * RaySin[r])

\* Math.abs(p.x - checkX) < range && Math.abs(p.y - checkY) < range, range
\* in half units.
Within(p, cx, cy, halves) ==
  /\ Abs(p.x * StepsPerUnit * Micro - cx) < halves * Micro
  /\ Abs(p.y * StepsPerUnit * Micro - cy) < halves * Micro

\* walls.some(...): a wall cell within 0.5 of the point is one of the four
\* whole cells around it.
WallAt(mapSize, cx, cy) ==
  \E wx \in {cx \div (StepsPerUnit * Micro), cx \div (StepsPerUnit * Micro) + 1},
     wy \in {cy \div (StepsPerUnit * Micro), cy \div (StepsPerUnit * Micro) + 1} :
    IsWall(mapSize, wx, wy) /\ Within(Pos(wx, wy), cx, cy, 1)

\* doors.find(...): the index of the first door within 0.5, or 0.
DoorAt(st, cx, cy) ==
  LET near == {d \in DOMAIN st.doors : Within(st.doors[d].position, cx, cy, 1)}
  IN IF near = {} THEN 0 ELSE CHOOSE d \in near : \A e \in near : d <= e

CheckpointAt(mapSize, cx, cy) ==
  \E c \in DOMAIN Checkpoints(mapSize) : Within(Checkpoints(mapSize)[c], cx, cy, 2)

\* agents.find(a => a !== agent && ...): the index of the first other agent
\* within 0.5, or 0.
AgentAt(st, i, cx, cy) ==
  LET near == {j \in DOMAIN st.agents :
                 j # i /\ Within(st.agents[j].position, cx, cy, 1)}
  IN IF near = {} THEN 0 ELSE CHOOSE j \in near : \A e \in near : j <= e

\* SampleHit with the door tested before the wall.
SampleHitDoorFirst(mapSize, st, i, r, k) ==
  LET cx == CheckX(st.agents[i], r, k)
      cy == CheckY(st.agents[i], r, k)
      door == DoorAt(st, cx, cy)
      hitAgent == AgentAt(st, i, cx, cy)
  IN IF door # 0 /\ ~st.doors[door].isOpen
     THEN [type |-> "door", distance |-> k]
     ELSE IF WallAt(mapSize, cx, cy) THEN [type |-> "wall", distance |-> k]
     ELSE IF CheckpointAt(mapSize, cx, cy)
     THEN [type |-> "checkpoint", distance |-> k]
     ELSE IF hitAgent # 0
     THEN [type |-> st.agents[hitAgent].type, distance |-> k]
     ELSE [type |-> "none", distance |-> k]

\* What the body of the loop of castVisionRay returns at sample k: a hit,
\* or "none" when the loop goes on.
SampleHit(mapSize, st, i, r, k) ==
  LET cx == CheckX(st.agents[i], r, k)
      cy == CheckY(st.agents[i], r, k)
      door == DoorAt(st, cx, cy)
      hitAgent == AgentAt(st, i, cx, cy)
  IN IF WallAt(mapSize, cx, cy) THEN [type |-> "wall", distance |-> k]
     ELSE IF door # 0 /\ ~st.doors[door].isOpen
     THEN [type |-> "door", distance |-> k]
     ELSE IF CheckpointAt(mapSize, cx, cy)
     THEN [type |-> "checkpoint", distance |-> k]
     ELSE IF hitAgent # 0
     THEN [type |-> st.agents[hitAgent].type, distance |-> k]
     ELSE [type |-> "none", distance |-> k]

\* castVisionRay(agent, angle) for the r-th angle: the hit of the first
\* sample that has one; distance in half units.
RECURSIVE CastFrom(_, _, _, _, _)
CastFrom(mapSize, st, i, r, k) ==
  IF k > visionRange * StepsPerUnit
  THEN [type |-> "none", distance |-> visionRange * StepsPerUnit]
  ELSE IF SampleHit(mapSize, st, i, r, k).type # "none"
       THEN SampleHit(mapSize, st, i, r, k)
       ELSE CastFrom(mapSize, st, i, r, k + 1)

castVisionRay(mapSize, st, i, r) == CastFrom(mapSize, st, i, r, 1)

\* getAgentVision(agent): the hits of the rays, in the order of the angles.
getAgentVision(mapSize, st, i) == [r \in Rays |-> castVisionRay(mapSize, st, i, r)]

\* The inputs of the network of agent i: the distances of the rays (in half
\* units, for distance / visionRange), health and timeStep (for health /
\* 100 or 200 and timeStep / 1000).
Percept(mapSize, st, i) ==
  [r \in Rays |-> getAgentVision(mapSize, st, i)[r].distance]
    \o <<st.agents[i].health, st.timeStep>>

\* The vision worker: its castVisionRay is given the walls, doors,
\* checkpoints and agents of a snapshot st (the agent being one of the
\* agents of the same message), and tests a checkpoint within 0.5.
WorkerCheckpointAt(mapSize, cx, cy) ==
  \E c \in DOMAIN Checkpoints(mapSize) : Within(Checkpoints(mapSize)[c], cx, cy, 1)

WorkerSampleHit(mapSize, st, i, r, k) ==
  LET cx == CheckX(st.agents[i], r, k)
      cy == CheckY(st.agents[i], r, k)
      door == DoorAt(st, cx, cy)
      hitAgent == AgentAt(st, i, cx, cy)
  IN IF WallAt(mapSize, cx, cy) THEN [type |-> "wall", distance |-> k]
     ELSE IF door # 0 /\ ~st.doors[door].isOpen
     THEN [type |-> "door", distance |-> k]
     ELSE IF WorkerCheckpointAt(mapSize, cx, cy)
     THEN [type |-> "checkpoint", distance |-> k]
     ELSE IF hitAgent # 0
     THEN [type |-> st.agents[hitAgent].type, distance |-> k]
     ELSE [type |-> "none", distance |-> k]

RECURSIVE WorkerCastFrom(_, _, _, _, _)
WorkerCastFrom(mapSize, st, i, r, k) ==
  IF k > visionRange * StepsPerUnit
  THEN [type |-> "none", distance |-> visionRange * StepsPerUnit]
  ELSE IF WorkerSampleHit(mapSize, st, i, r, k).type # "none"
       THEN WorkerSampleHit(mapSize, st, i, r, k)
       ELSE WorkerCastFrom(mapSize, st, i, r, k + 1)

workerCastVisionRay(mapSize, st, i, r) == WorkerCastFrom(mapSize, st, i, r, 1)

workerGetAgentVision(mapSize, st, i) ==
  [r \in Rays |-> workerCastVisionRay(mapSize, st, i, r)]

\* The body of the forEach of updateOnce for agent i.
AgentStep(mapSize, st, i, outputs) ==
  IF st.agents[i].health <= 0 THEN st
  ELSE updateFitness(mapSize,
         handleOrbCollection(
           handleDoorInteraction(moveAgent(mapSize, st, i, outputs), i, outputs),
           i),
         i)

\* The forEach from agent i on; outs[i] are the outputs of agent i's network.
\* It ends at the first agent whose updateFitness throws.
RECURSIVE AgentsFrom(_, _, _, _)
AgentsFrom(mapSize, st, i, outs) ==
  IF i > Len(st.agents) THEN [state |-> st, threw |-> FALSE]
  ELSE LET next == AgentStep(mapSize, st, i, outs[i])
       IN IF st.agents[i].health > 0 /\ updateFitnessThrows(next, i)
          THEN [state |-> next, threw |-> TRUE]
          ELSE AgentsFrom(mapSize, next, i + 1, outs)

\* The start of the agents' phase of updateOnce: timeStep++ and updateDoors.
PhaseStart(st) == updateDoors([st EXCEPT !.timeStep = @ + 1])

\* The states in which the forEach finds agents i, i + 1, ... in turn: each
\* is what the agents before left.  The forEach ends where updateFitness
\* throws.
RECURSIVE StatesSeen(_, _, _, _)
StatesSeen(mapSize, st, i, outs) ==
  IF i > Len(st.agents) THEN << >>
  ELSE <<st>> \o
       (IF st.agents[i].health > 0
             /\ updateFitnessThrows(AgentStep(mapSize, st, i, outs[i]), i)
        THEN << >>
        ELSE StatesSeen(mapSize, AgentStep(mapSize, st, i, outs[i]), i + 1, outs))

\* handleInteractions: scientists and scps are the living ones when the
\* phase starts; the pairs are visited scp by scp, scientist by scientist.
\* InMelee with <= for <: a pair at distance 2 fights.
InMeleeInclusive(a, b) == Dist2(a.position, b.position) <= MeleeRange * MeleeRange

InMelee(a, b) == distanceLt(a.position, b.position, MeleeRange)

LivingScps(st) ==
  {j \in DOMAIN st.agents : st.agents[j].type = "scp" /\ st.agents[j].health > 0}

\* The body of the inner loop for the pair (scp k, scientist j).
CombatPair(st, k, j) ==
  IF InMelee(st.agents[k], st.agents[j])
  THEN [st EXCEPT !.agents[j].health = Max(0, @ - CombatDamage),
                  !.agents[k].fitness = @ + CombatReward * FitUnit]
  ELSE st

RECURSIVE CombatLoop(_, _)
CombatLoop(st, pairs) ==
  IF pairs = << >> THEN st
  ELSE CombatLoop(CombatPair(st, Head(pairs)[1], Head(pairs)[2]), Tail(pairs))

handleInteractions(st) ==
  LET scientists == SeqOfSet(LivingScientists(st))
      scps == SeqOfSet(LivingScps(st))
  IN CombatLoop(st, Concat([k \in 1..Len(scps) |->
                      [j \in 1..Len(scientists) |-> <<scps[k], scientists[j]>>]]))

hasEscaped(mapSize, scientist) ==
  \E c \in DOMAIN Checkpoints(mapSize) :
    distanceLt(scientist.position, Checkpoints(mapSize)[c], 2)

\* shouldEndGeneration with > for >=: the generation lasts one tick more.
shouldEndGenerationLate(mapSize, st) ==
  \/ st.timeStep > MaxTimeStep
  \/ \A j \in DOMAIN st.agents :
       st.agents[j].type = "scientist" =>
         st.agents[j].health <= 0 \/ hasEscaped(mapSize, st.agents[j])

shouldEndGeneration(mapSize, st) ==
  \/ st.timeStep >= MaxTimeStep
  \/ \A j \in DOMAIN st.agents :
       st.agents[j].type = "scientist" =>
         st.agents[j].health <= 0 \/ hasEscaped(mapSize, st.agents[j])

\* updateOnce up to handleInteractions (the end check is the next step).
TickPhases(mapSize, st, outs) ==
  LET a == AgentsFrom(mapSize, updateDoors([st EXCEPT !.timeStep = @ + 1]), 1, outs)
  IN IF a.threw THEN a
     ELSE [state |-> handleInteractions(a.state), threw |-> FALSE]

\* ------------------------------------------------------------ evolution
\* References are renamed in the order the agents use them, and arrays no
\* agent refers to are dropped: neither can be observed by the program.
RECURSIVE Dedupe(_, _)
Dedupe(seq, seen) ==
  IF seq = << >> THEN << >>
  ELSE IF Head(seq) \in seen THEN Dedupe(Tail(seq), seen)
  ELSE <<Head(seq)>> \o Dedupe(Tail(seq), seen \cup {Head(seq)})

Collect(agents, heap) ==
  LET order == Dedupe(Concat([i \in DOMAIN agents |-> agents[i].network.biases]), {})
      name(r) == CHOOSE k \in DOMAIN order : order[k] = r
  IN [agents |-> [i \in DOMAIN agents |->
                    [agents[i] EXCEPT !.network.biases = [l \in Layers |-> name(@[l])]]],
      heap |-> [k \in DOMAIN order |-> heap[order[k]]]]

\* createOffspring: draw = [y, mut] are the Math.random() draws of the
\* position and of mutate.  The weights are a deep copy
\* (JSON.parse(JSON.stringify(...))); [...parent.network.biases] copies the
\* outer array only, so the offspring's biases are the parent's two arrays.
createOffspring(mapSize, heap, parent, id, draw) ==
  LET copy == [weights |-> parent.network.weights,
               biases |-> [l \in Layers |-> parent.network.biases[l]]]
      m == mutate(heap, copy, draw.mut)
  IN [agent |-> NewAgent(id, parent.type, StartX(mapSize, parent.type),
                         5 + draw.y, m.network),
      heap |-> m.heap]

\* Fittest with a sort that puts the last of the fittest first.
FittestLastOfTies(agents, type) ==
  LET pop == {j \in DOMAIN agents : agents[j].type = type}
  IN IF pop = {} THEN 0
     ELSE CHOOSE j \in pop :
            \A k \in pop : \/ agents[j].fitness > agents[k].fitness
                           \/ agents[j].fitness = agents[k].fitness /\ j >= k

\* scientists.sort((a, b) => b.fitness - a.fitness)[0]: the sort is stable,
\* so the first of the fittest; 0 when there is no agent of the type.
Fittest(agents, type) ==
  LET pop == {j \in DOMAIN agents : agents[j].type = type}
  IN IF pop = {} THEN 0
     ELSE CHOOSE j \in pop :
            \A k \in pop : \/ agents[j].fitness > agents[k].fitness
                           \/ agents[j].fitness = agents[k].fitness /\ j <= k

\* Repopulate without the reseeding: a type without agents stays without.
RECURSIVE RepopulateNoReseed(_, _, _, _, _, _, _, _)
RepopulateNoReseed(mapSize, st, newAgents, heap, type, n, first, draws) ==
  IF n = 0 \/ Fittest(st.agents, type) = 0
  THEN [agents |-> newAgents, heap |-> heap]
  ELSE LET prev == RepopulateNoReseed(mapSize, st, newAgents, heap, type, n - 1,
                                      first, draws)
           made == createOffspring(mapSize, prev.heap,
                     st.agents[Fittest(st.agents, type)],
                     OffspringId(type, st.generation + 1, n - 1), draws[first + n])
       IN [agents |-> Append(prev.agents, made.agent), heap |-> made.heap]

\* One branch of evolve: n offspring of the fittest of the type, or n seed
\* agents when there is none; draws[first + i] belongs to the i-th of them.
RECURSIVE Repopulate(_, _, _, _, _, _, _, _)
Repopulate(mapSize, st, newAgents, heap, type, n, first, draws) ==
  IF n = 0 THEN [agents |-> newAgents, heap |-> heap]
  ELSE LET prev == Repopulate(mapSize, st, newAgents, heap, type, n - 1, first, draws)
           best == Fittest(st.agents, type)
           draw == draws[first + n]
           made == IF best # 0
                   THEN createOffspring(mapSize, prev.heap, st.agents[best],
                          OffspringId(type, st.generation + 1, n - 1), draw)
                   ELSE createInitialAgent(mapSize, prev.heap, type, n - 1, draw.w)
       IN [agents |-> Append(prev.agents, made.agent), heap |-> made.heap]

\* evolve without the reset of timeStep.
evolveKeepsTimeStep(mapSize, populationSize, st, heap, draws) ==
  LET half == HalfPopulation(populationSize)
      sci == Repopulate(mapSize, st, << >>, heap, "scientist", half, 0, draws)
      all == Repopulate(mapSize, st, sci.agents, sci.heap, "scp", half, half, draws)
      kept == Collect(all.agents, all.heap)
  IN [state |-> [st EXCEPT
                   !.agents = kept.agents,
                   !.orbs = [o \in DOMAIN @ |-> [@[o] EXCEPT !.collected = FALSE]],
                   !.generation = @ + 1],
      heap |-> kept.heap]

evolve(mapSize, populationSize, st, heap, draws) ==
  LET half == HalfPopulation(populationSize)
      sci == Repopulate(mapSize, st, << >>, heap, "scientist", half, 0, draws)
      all == Repopulate(mapSize, st, sci.agents, sci.heap, "scp", half, half, draws)
      kept == Collect(all.agents, all.heap)
  IN [state |-> [st EXCEPT
                   !.agents = kept.agents,
                   !.orbs = [o \in DOMAIN @ |-> [@[o] EXCEPT !.collected = FALSE]],
                   !.generation = @ + 1,
                   !.timeStep = 0],
      heap |-> kept.heap]

\* ------------------------------------------------------------ snapshots
(***************************************************************************)
(* A snapshot string is modelled by what JSON.parse makes of it:           *)
(*   [parses |-> FALSE]                       no JSON text at all;         *)
(*   [parses |-> TRUE, agents |-> ..., ...]   an object.                   *)
(* A property that may be missing is a sequence of length 0 (undefined) or *)
(* 1 (its value).  Sets are written as arrays.  Among the invalid          *)
(* snapshots the model loads are those with no agents and those where an   *)
(* agent has no network; an object without generation, timeStep, orbs or   *)
(* doors (loadState would store undefined) is not among its inputs.        *)
(***************************************************************************)
RECURSIVE ArrayFrom(_)
\* Array.from(set): the elements of the set, in some order.
ArrayFrom(S) ==
  IF S = {} THEN << >>
  ELSE LET x == CHOOSE x \in S : TRUE IN <<x>> \o ArrayFrom(S \ {x})

\* One element of saveData.agents: the agent's own properties, its network
\* as {weights, biases} (the arrays' contents) and its two sets as arrays.
\* SavedAgent writing visitedRooms as JSON.stringify writes a Set it is
\* handed directly: as an object without entries.
SavedAgentSetAsIs(heap, agent) ==
  [id |-> agent.id, position |-> agent.position, rotation |-> agent.rotation,
   type |-> agent.type, health |-> agent.health, fitness |-> agent.fitness,
   isInteracting |-> agent.isInteracting,
   lastDoorInteraction |-> agent.lastDoorInteraction,
   network |-> <<[weights |-> agent.network.weights,
                  biases |-> BiasValues(heap, agent.network)]>>,
   collectedOrbs |-> ArrayFrom(agent.collectedOrbs),
   visitedRooms |-> ArrayFrom({})]

SavedAgent(heap, agent) ==
  [id |-> agent.id, position |-> agent.position, rotation |-> agent.rotation,
   type |-> agent.type, health |-> agent.health, fitness |-> agent.fitness,
   isInteracting |-> agent.isInteracting,
   lastDoorInteraction |-> agent.lastDoorInteraction,
   network |-> <<[weights |-> agent.network.weights,
                  biases |-> BiasValues(heap, agent.network)]>>,
   collectedOrbs |-> ArrayFrom(agent.collectedOrbs),
   visitedRooms |-> ArrayFrom(agent.visitedRooms)]

saveState(st, heap) ==
  [parses |-> TRUE,
   agents |-> <<[i \in DOMAIN st.agents |-> SavedAgent(heap, st.agents[i])]>>,
   generation |-> st.generation,
   timeStep |-> st.timeStep,
   orbs |-> st.orbs,
   doors |-> st.doors]

\* The map of loadState: every agent of the snapshot with a new network
\* (random weights ws[i], new bias arrays) and its two arrays as sets.
RECURSIVE LoadedAgents(_, _, _, _)
LoadedAgents(saved, heap, n, ws) ==
  IF n = 0 THEN [agents |-> << >>, heap |-> heap]
  ELSE LET prev == LoadedAgents(saved, heap, n - 1, ws)
           net == NewNetwork(prev.heap, ws[n])
           a == saved[n]
       IN [agents |-> Append(prev.agents,
                        [id |-> a.id, position |-> a.position,
                         rotation |-> a.rotation, type |-> a.type,
                         health |-> a.health, fitness |-> a.fitness,
                         isInteracting |-> a.isInteracting,
                         lastDoorInteraction |-> a.lastDoorInteraction,
                         network |-> net.network,
                         collectedOrbs |-> Range(a.collectedOrbs),
                         visitedRooms |-> Range(a.visitedRooms)]),
           heap |-> net.heap]

\* The forEach of loadState: the weights and biases of the snapshot are
\* assigned agent by agent, up to the first agent that has no network
\* (reading .weights of undefined throws).
RECURSIVE AssignNetworks(_, _, _, _)
AssignNetworks(saved, agents, heap, i) ==
  IF i > Len(agents) THEN [agents |-> agents, heap |-> heap, threw |-> FALSE]
  ELSE IF saved[i].network = << >>
       THEN [agents |-> agents, heap |-> heap, threw |-> TRUE]
       ELSE LET net == saved[i].network[1]
                refs == agents[i].network.biases
            IN AssignNetworks(saved,
                 [agents EXCEPT ![i].network.weights = net.weights],
                 [r \in DOMAIN heap |->
                    IF r = refs[1] THEN net.biases[1]
                    ELSE IF r = refs[2] THEN net.biases[2] ELSE heap[r]],
                 i + 1)

\* loadState: the GameState and the heap it leaves, whether or not it threw
\* (the catch only logs).
loadState(st, heap, saveData, ws) ==
  IF ~saveData.parses \/ saveData.agents = << >>
  THEN [state |-> st, heap |-> heap, threw |-> TRUE]
  ELSE LET saved == saveData.agents[1]
           made == LoadedAgents(saved, heap, Len(saved), ws)
           set == AssignNetworks(saved, made.agents, made.heap, 1)
           kept == Collect(set.agents, set.heap)
       IN IF set.threw
          THEN [state |-> [st EXCEPT !.agents = kept.agents],
                heap |-> kept.heap, threw |-> TRUE]
          ELSE [state |-> [st EXCEPT !.agents = kept.agents,
                                     !.generation = saveData.generation,
                                     !.timeStep = saveData.timeStep,
                                     !.orbs = saveData.orbs,
                                     !.doors = saveData.doors],
                heap |-> kept.heap, threw |-> FALSE]

\* ------------------------------------------------------------ inputs
Out(speed, turn, interact) == [speed |-> speed, turn |-> turn, interact |-> interact]

Idle == Out(0, 0, 0)
Hold == Out(0, 0, 10)

Go == Out(10, -4, 0)

\* A longer step forward, which takes a scientist 7 units ahead.
Stride == Out(14, 0, 0)

\* Outputs of an agent that wants to walk while it keeps its intent: a step
\* after a quarter turn to either side, a step ahead and a half step ahead.
PullRight == Out(10, -1, 10)
PullLeft == Out(10, 1, 10)
Pull == Out(10, 0, 10)
PullHalf == Out(5, 0, 10)

\* Half a turn and a step of 3 units for a scientist; a quarter turn with a
\* step of 1 unit; half a turn and a quarter turn on the spot.
Back == Out(6, 2, 0)
Sidestep == Out(2, -1, 0)
TurnBack == Out(0, 2, 0)
TurnRight == Out(0, -1, 0)

\* The outputs a network produces in a tick: none, the intent to interact,
\* a full turn back and a step forward.
Outputs == {Idle, Hold, Go}

\* One output vector per agent; a dead agent's network is not run.
OutputsOf(agents) ==
  {outs \in [DOMAIN agents -> Outputs] :
     \A j \in DOMAIN agents : agents[j].health <= 0 => outs[j] = Idle}

NoMutation == [weights |-> <<ZeroLayer, ZeroLayer>>, biases |-> <<ZeroLayer, ZeroLayer>>]

\* What mutate draws here: a perturbation of the first weight layer and of
\* the second bias layer.
SomeMutation ==
  [weights |-> <<ConstLayer(1), ZeroLayer>>, biases |-> <<ZeroLayer, ConstLayer(-1)>>]

\* The draws of one new agent at a generation transition: Math.random() * 10
\* of the position, the draws of mutate, and the weights of a seed network.
Draws == {[y |-> 0, mut |-> NoMutation, w |-> 1],
          [y |-> 2, mut |-> SomeMutation, w |-> 2]}

\* The draws of the n new agents of one transition: the same for all, or
\* alternating.
DrawsOf(n) ==
  {[k \in 1..n |-> IF k % 2 = 1 THEN d ELSE e] : d \in Draws, e \in Draws}

\* The visits of the forEach of the tick that starts in st, over all the
\* outputs the networks may produce: <<i, s>> when agent i, alive, is
\* visited in state s, where it casts its rays and then acts.
Visits(mapSize, st) ==
  UNION {LET seen == StatesSeen(mapSize, PhaseStart(st), 1, outs)
         IN {<<k, seen[k]>> : k \in {j \in DOMAIN seen : st.agents[j].health > 0}}
         : outs \in OutputsOf(st.agents)}

\* setSimulationSpeed(speed): the speeds that are requested, in tenths.
Speeds == {0, 5, 10}

\* ------------------------------------------------------------ the engine
VARIABLES
  mapSize,         \* GameEngine.mapSize
  populationSize,  \* GameEngine.populationSize
  state,           \* GameEngine.state: agents, doors, orbs, generation, timeStep
  heap,            \* the bias arrays the agents' networks refer to
  batchSize,       \* GameEngine.batchSize
  shouldRender,    \* GameEngine.shouldRender
  pc,              \* where update() is: idle, tick, endCheck, loopCheck
  i,               \* the loop variable of update()
  call,            \* the running update(): its ticks and evolutions so far
  outcome,         \* the last operation called, and whether it raised or caught an error
  fight,           \* the agents as handleInteractions of the tick just run found them
  left,            \* ticks the run may still execute
  probe            \* a call of forward on its own: network, inputs and result

vars == <<mapSize, populationSize, state, heap, batchSize, shouldRender,
          pc, i, call, outcome, fight, left, probe>>

NoCall == [ticks |-> 0, evolved |-> 0]

\* No call of forward on its own.
NoProbe == [network |-> << >>, inputs |-> << >>, result |-> << >>]

Outcome(op, input, error) == [op |-> op, input |-> input, error |-> error]

\* ------------------------------------------------------------ initial states
(***************************************************************************)
(* The initial states are states of an engine after construction and,      *)
(* to reach what happens late in a generation, after further ticks, run in *)
(* segments in which every network keeps producing the same outputs        *)
(* (calls of update() with batchSize 1).  They are computed with the       *)
(* operators of the model.                                                 *)
(***************************************************************************)
\* F of the value of v, with v evaluated once.
Then(v, F(_)) == CHOOSE y \in {F(x) : x \in {v}} : TRUE

\* n ticks with the outputs outs, none of which ended the generation (ok);
\* a tick in which updateFitness throws ends its call of update() there,
\* before the end check.  Computed by halves to keep the evaluation shallow.
RECURSIVE RunTicks(_, _, _, _)
RunTicks(size, st, outs, n) ==
  IF n = 0 THEN [state |-> st, ok |-> TRUE]
  ELSE IF n = 1
  THEN Then(TickPhases(size, st, outs),
            LAMBDA r : [state |-> r.state,
                        ok |-> r.threw \/ ~shouldEndGeneration(size, r.state)])
  ELSE Then(RunTicks(size, st, outs, n \div 2),
            LAMBDA a : IF ~a.ok THEN a
                       ELSE RunTicks(size, a.state, outs, n - n \div 2))

\* A segment of a scenario: n ticks with the outputs outs; when draws are
\* given, the last of them ends the generation and evolve() takes them.
Segment(outs, n, draws) == [outs |-> outs, n |-> n, draws |-> draws]

\* The last tick of a segment that ends the generation, and evolve().
EndSegment(size, pop, st, hp, seg) ==
  Then(TickPhases(size, st, seg.outs),
       LAMBDA last :
         IF last.threw \/ ~shouldEndGeneration(size, last.state)
         THEN [state |-> st, heap |-> hp, ok |-> FALSE]
         ELSE Then(evolve(size, pop, last.state, hp, seg.draws),
                   LAMBDA next : [state |-> next.state, heap |-> next.heap,
                                  ok |-> TRUE]))

\* One segment from the state st and the heap hp.
RunSegment(size, pop, st, hp, seg) ==
  IF seg.draws = << >>
  THEN Then(RunTicks(size, st, seg.outs, seg.n),
            LAMBDA run : [state |-> run.state, heap |-> hp, ok |-> run.ok])
  ELSE Then(RunTicks(size, st, seg.outs, seg.n - 1),
            LAMBDA run : IF run.ok THEN EndSegment(size, pop, run.state, hp, seg)
                         ELSE [state |-> st, heap |-> hp, ok |-> FALSE])

RECURSIVE RunScript(_, _, _, _, _)
RunScript(size, pop, st, hp, script) ==
  IF script = << >> THEN [state |-> st, heap |-> hp, ok |-> TRUE]
  ELSE Then(RunSegment(size, pop, st, hp, Head(script)),
            LAMBDA r : IF r.ok
                       THEN RunScript(size, pop, r.state, r.heap, Tail(script))
                       ELSE r)

\* The door patterns drawn by the constructor: all closed, the first open.
DoorDraws == {{}, {1}}

\* Scenarios: (mapSize, populationSize), the segments run first, and the
\* ticks the run explores after them.
Scenario(size, pop, script, more) ==
  [mapSize |-> size, populationSize |-> pop, script |-> script, left |-> more]

\* Offspring drawn at heights 6, 13, 5 and 7, without mutation.
SiegeDraws ==
  [k \in 1..4 |-> [y |-> <<1, 8, 0, 2>>[k], mut |-> NoMutation, w |-> 1]]

\* A generation ends; of the next one, the first scientist steps forward
\* and the first scp meets it (one hit), the second scp joins (two hits a
\* tick), and they stay until the scientist has 10 health left.
Siege ==
  <<Segment(<<Idle, Idle, Idle, Idle>>, 1000, SiegeDraws),
    Segment(<<Go, Idle, Go, Idle>>, 1, << >>),
    Segment(<<Idle, Idle, Idle, Go>>, 1, << >>),
    Segment(<<Idle, Idle, Idle, Idle>>, 3, << >>)>>

\* ... and one tick more, in which the scientist dies where it stands.
Aftermath == Siege \o <<Segment(<<Idle, Idle, Idle, Idle>>, 1, << >>)>>

\* The scientists walk to (2,6) and (2,7) and face the orb at (7,7) again;
\* the second then steps to it and picks it up.
OrbWalk ==
  <<Segment(<<Back, Back, Idle, Idle>>, 1, << >>),
    Segment(<<Sidestep, TurnBack, Idle, Idle>>, 1, << >>),
    Segment(<<TurnRight, Go, Idle, Idle>>, 1, << >>)>>

\* A scientist walks into reach of door (14,7) while the scp beside the
\* door claims it and holds it until its progress is one short of the
\* toggle.
DoorWatch ==
  <<Segment(<<Stride, Hold>>, 1, << >>),
    Segment(<<Idle, Hold>>, doorInteractionTime - 1, << >>)>>

\* The scp claims door (14,7) and then, its intent kept, is told to walk
\* towards door (7,14).
Wander ==
  <<Segment(<<Idle, Hold>>, 1, << >>),
    Segment(<<Idle, PullRight>>, 1, << >>),
    Segment(<<Idle, Pull>>, 1, << >>),
    Segment(<<Idle, PullLeft>>, 1, << >>),
    Segment(<<Idle, PullHalf>>, 1, << >>)>>

Scenarios ==
  {Scenario(20, 2, << >>, MaxTicks),
   Scenario(20, 2, <<Segment(<<Idle, Idle>>, 999, << >>)>>, MaxTicks),
   Scenario(20, 2, <<Segment(<<Idle, Hold>>, 19, << >>)>>, MaxTicks),
   Scenario(20, 2, <<Segment(<<Idle, Hold>>, 49, << >>)>>, MaxTicks),
   Scenario(20, 4, <<Segment(<<Idle, Idle, Idle, Idle>>, 999, << >>)>>, 1),
   Scenario(20, 4, Siege, 1),
   Scenario(20, 4, Aftermath, 1),
   Scenario(20, 4, OrbWalk, 1),
   Scenario(20, 2, DoorWatch, MaxTicks),
   Scenario(20, 2, Wander, MaxTicks),
   Scenario(20, 1, << >>, MaxTicks),
   Scenario(15, 4, <<Segment(<<Idle, Go, Idle, Go>>, 1, << >>)>>, 1),
   Scenario(10, 2, << >>, MaxTicks),
   Scenario(10, 2, <<Segment(<<Idle, Idle>>, 999, << >>)>>, MaxTicks),
   Scenario(120, 2, <<Segment(<<Idle, Idle>>, 1, << >>)>>, 1),
   Scenario(20, 2, <<Segment(<<Stride, Idle>>, 1, << >>)>>, MaxTicks)}

\* The engine after the scenario sc, its constructor having drawn the door
\* pattern open.
EngineInit(sc, open) ==
  \E made \in {initializeGame(sc.mapSize, sc.populationSize, open,
                              [k \in 1..sc.populationSize |-> k])} :
    \E run \in {RunScript(sc.mapSize, sc.populationSize, made.state,
                          made.heap, sc.script)} :
      /\ run.ok
      /\ mapSize = sc.mapSize
      /\ populationSize = sc.populationSize
      /\ state = run.state
      /\ heap = run.heap
      /\ batchSize = DefaultBatchSize
      /\ shouldRender = TRUE
      /\ pc = "idle"
      /\ i = 0
      /\ call = NoCall
      /\ outcome = Outcome("construct", "", FALSE)
      /\ fight = << >>
      /\ left = sc.left

Init ==
  /\ \E sc \in Scenarios, open \in DoorDraws : EngineInit(sc, open)
  /\ probe = NoProbe

\* ------------------------------------------------------------ operations
SetSimulationSpeed ==
  /\ pc = "idle"
  /\ \E speed \in Speeds :
       /\ batchSize' = Min(CeilDiv(speed * 2, 10), MaxBatchSize)
       /\ shouldRender' = (speed <= 50)
  /\ UNCHANGED <<probe, mapSize, populationSize, state, heap, pc, i, call, outcome,
                 fight, left>>

\* update() is entered.
Update ==
  /\ pc = "idle"
  /\ batchSize <= left
  /\ pc' = IF batchSize > 0 THEN "tick" ELSE "idle"
  /\ i' = 0
  /\ call' = NoCall
  /\ outcome' = Outcome("update", "", FALSE)
  /\ UNCHANGED <<probe, mapSize, populationSize, state, heap, batchSize, shouldRender,
                 fight, left>>

\* updateOnce, up to and including handleInteractions.  A TypeError of
\* updateFitness leaves update() through every frame.
Tick ==
  /\ pc = "tick"
  /\ \E outs \in OutputsOf(state.agents) :
       LET before == AgentsFrom(mapSize,
                       updateDoors([state EXCEPT !.timeStep = @ + 1]), 1, outs)
           r == TickPhases(mapSize, state, outs)
       IN /\ state' = r.state
          /\ pc' = IF r.threw THEN "idle" ELSE "endCheck"
          /\ outcome' = Outcome("update", "", r.threw)
          /\ fight' = IF r.threw THEN << >> ELSE before.state.agents
          /\ call' = IF r.threw THEN NoCall ELSE [call EXCEPT !.ticks = @ + 1]
  /\ left' = left - 1
  /\ UNCHANGED <<probe, mapSize, populationSize, heap, batchSize, shouldRender, i>>

\* evolve(), after which update() is at `next`.
Evolve(next) ==
  /\ \E draws \in DrawsOf(2 * HalfPopulation(populationSize)) :
       LET r == evolve(mapSize, populationSize, state, heap, draws)
       IN state' = r.state /\ heap' = r.heap
  /\ pc' = next
  /\ call' = IF next = "idle" THEN NoCall ELSE [call EXCEPT !.evolved = @ + 1]
  /\ fight' = << >>
  /\ UNCHANGED <<probe, mapSize, populationSize, batchSize, shouldRender, i, outcome, left>>

\* The end of updateOnce: "if (this.shouldEndGeneration()) this.evolve()".
TickEvolve ==
  /\ pc = "endCheck"
  /\ shouldEndGeneration(mapSize, state)
  /\ Evolve("loopCheck")

TickReturn ==
  /\ pc = "endCheck"
  /\ ~shouldEndGeneration(mapSize, state)
  /\ pc' = "loopCheck"
  /\ fight' = << >>
  /\ UNCHANGED <<probe, mapSize, populationSize, state, heap, batchSize, shouldRender,
                 i, call, outcome, left>>

\* The loop body of update() after updateOnce:
\* "if (this.shouldEndGeneration()) { this.evolve(); break; }".
LoopEvolve ==
  /\ pc = "loopCheck"
  /\ shouldEndGeneration(mapSize, state)
  /\ Evolve("idle")

\* ... and otherwise i++ and the loop test.
LoopNext ==
  /\ pc = "loopCheck"
  /\ ~shouldEndGeneration(mapSize, state)
  /\ i' = i + 1
  /\ pc' = IF i + 1 < batchSize THEN "tick" ELSE "idle"
  /\ call' = IF i + 1 < batchSize THEN call ELSE NoCall
  /\ UNCHANGED <<probe, mapSize, populationSize, state, heap, batchSize, shouldRender,
                 outcome, fight, left>>

\* The snapshots loadState is called with: the one saveState returns now,
\* the one it returned right after construction, that one with the
\* scientists taken out, and invalid ones: text
\* that does not parse, an object without agents, and the snapshot of
\* construction with the network of its last agent missing.
Unparseable == [parses |-> FALSE]

WithoutAgents(saveData) == [saveData EXCEPT !.agents = << >>]

WithoutNetwork(saveData, k) == [saveData EXCEPT !.agents[1][k].network = << >>]

InitialSnapshot ==
  LET made == initializeGame(mapSize, populationSize, {},
                             [k \in 1..populationSize |-> k])
  IN saveState(made.state, made.heap)

\* A snapshot whose agents are pursuers only.
PursuersOnly(saveData) ==
  [saveData EXCEPT !.agents[1] = SelectSeq(@, LAMBDA a : a.type = "scp")]

ValidInputs ==
  {[kind |-> "saved", data |-> saveState(state, heap)],
   [kind |-> "initial", data |-> InitialSnapshot],
   [kind |-> "pursuersOnly", data |-> PursuersOnly(InitialSnapshot)]}

InvalidInputs ==
  {[kind |-> "garbage", data |-> Unparseable],
   [kind |-> "noAgents", data |-> WithoutAgents(InitialSnapshot)]}
  \cup {[kind |-> "noNetwork",
         data |-> WithoutNetwork(InitialSnapshot, Len(InitialSnapshot.agents[1]))] :
          k \in {1} \cap DOMAIN InitialSnapshot.agents[1]}

\* The weights drawn by the constructors of the networks loadState makes.
LoadDraws == [k \in 1..populationSize |-> 0]

\* loadState(input.data), between two calls of update(); the model does
\* not load twice in a row.
LoadStateOf(input) ==
  /\ pc = "idle"
  /\ outcome.op # "loadState"
  /\ LET r == loadState(state, heap, input.data, LoadDraws)
     IN /\ state' = r.state
        /\ heap' = r.heap
        /\ outcome' = Outcome("loadState", input.kind, r.threw)
  /\ UNCHANGED <<probe, mapSize, populationSize, batchSize, shouldRender, pc, i, call,
                 fight, left>>

LoadState == \E input \in ValidInputs \cup InvalidInputs : LoadStateOf(input)

Next ==
  \/ SetSimulationSpeed
  \/ LoadState
  \/ Update
  \/ Tick
  \/ TickEvolve
  \/ TickReturn
  \/ LoopEvolve
  \/ LoopNext

Spec == Init /\ [][Next]_vars

\* ------------------------------------------------------------ forward alone
(***************************************************************************)
(* NeuralNetwork.forward as a function of a network and an input vector:   *)
(* networks of 1..MaxLayerSize inputs and hidden cells, as the constructor *)
(* and mutate leave them, and input vectors of every length up to one more *)
(* than the largest inputSize.  The engine stays as constructed.           *)
(***************************************************************************)
ProbeNetworks ==
  {NeuralNetwork(n, h, outputSize, draw, bias) :
     n \in 1..MaxLayerSize, h \in 1..MaxLayerSize, draw \in {1, 2}, bias \in {0, 1}}

ProbeInputs ==
  UNION {[1..n -> {0, 1}] : n \in 0..(MaxLayerSize + 1)}

ForwardInit ==
  /\ EngineInit(Scenario(20, 2, << >>, 0), {})
  /\ \E network \in ProbeNetworks, inputs \in ProbeInputs :
       probe = [network |-> network, inputs |-> inputs, result |-> << >>]

\* network.forward(inputs) is called.
Forward ==
  /\ probe.result = << >>
  /\ probe' = [probe EXCEPT !.result = <<forward(probe.network, probe.inputs)>>]
  /\ UNCHANGED <<mapSize, populationSize, state, heap, batchSize, shouldRender,
                 pc, i, call, outcome, fight, left>>

ForwardSpec == ForwardInit /\ [][Forward]_vars

\* ------------------------------------------------------------ claims
\* The GameState as a value: every network with the contents of its arrays.
View(st, hp) ==
  [agents |-> [j \in DOMAIN st.agents |->
                 [st.agents[j] EXCEPT
                    !.network = [weights |-> @.weights,
                                 biases |-> BiasValues(hp, @)]]],
   doors |-> st.doors, orbs |-> st.orbs,
   generation |-> st.generation, timeStep |-> st.timeStep]

\* A step that is a call of loadState.
LoadStep == outcome.op # "loadState" /\ outcome'.op = "loadState"

\* A step that is a call of evolve().
EvolutionStep ==
  pc \in {"endCheck", "loopCheck"} /\ shouldEndGeneration(mapSize, state)

\* A step that is updateOnce up to its end check.
TickStep == pc = "tick"

CountOf(agents, type) == Cardinality({j \in DOMAIN agents : agents[j].type = type})

\* C1 (as claimed): loadState of a structurally invalid snapshot leaves
\* agents, generation, timeStep, orbs and doors exactly as they were.
C1_InvalidLoadLeavesState ==
  [][(LoadStep /\ outcome'.input \in {"garbage", "noAgents", "noNetwork"})
       => View(state, heap)' = View(state, heap)]_vars

\* C2 (as claimed): no two agents' networks hold the same bias array, so
\* that mutating one offspring's biases changes no other network's.
C2_NoSharedBiasStorage ==
  \A a, b \in DOMAIN state.agents :
    a # b => Range(state.agents[a].network.biases)
               \cap Range(state.agents[b].network.biases) = {}

\* C3 (as claimed): once an evolution event has happened inside a call of
\* update(), that call executes no further tick.
C3_NoTickAfterEvolution ==
  [][call.evolved > 0 => call'.ticks <= call.ticks]_vars

\* C4: between calls of update(), loading what saveState returns into a
\* freshly constructed engine of the same mapSize and populationSize gives a
\* GameState equal to the saved one in generation, timeStep, orbs, doors
\* and every property of every agent, its network's weights and biases and
\* its two sets included.
C4_SaveLoadRoundTrip ==
  pc = "idle" =>
    \A open \in DoorDraws :
      LET fresh == initializeGame(mapSize, populationSize, open,
                                  [k \in 1..populationSize |-> k])
          r == loadState(fresh.state, fresh.heap, saveState(state, heap), LoadDraws)
      IN ~r.threw /\ View(r.state, r.heap) = View(state, heap)

\* A snapshot of a running generation (rooms visited, fitness earned) has
\* been saved and loaded.
C4_Witness ==
  /\ outcome = Outcome("loadState", "saved", FALSE)
  /\ state.timeStep > 0
  /\ \E j \in DOMAIN state.agents :
       state.agents[j].visitedRooms # {} /\ state.agents[j].fitness > 0

\* C5: every evolution event adds exactly 1 to generation and sets
\* timeStep to 0 in the same step, and no other step of update() changes
\* generation.
C5_GenerationStep ==
  [][IF EvolutionStep
     THEN state'.generation = state.generation + 1 /\ state'.timeStep = 0
     ELSE LoadStep \/ state'.generation = state.generation]_vars

\* An evolution event has happened at the end of a tick.
C5_Witness ==
  pc = "loopCheck" /\ call.evolved = 1 /\ state.generation > 0 /\ state.timeStep = 0

\* C6: right after an evolution event there are exactly
\* floor(populationSize / 2) escapers and as many pursuers, whatever the
\* populations were before.
C6_PopulationAfterEvolution ==
  [][EvolutionStep =>
       /\ CountOf(state'.agents, "scientist") = populationSize \div 2
       /\ CountOf(state'.agents, "scp") = populationSize \div 2]_vars

\* An evolution event has reseeded a population that was empty (its agents
\* carry seed ids) while the other one produced offspring.
C6_Witness ==
  /\ pc = "loopCheck" /\ call.evolved = 1
  /\ \E j, k \in DOMAIN state.agents :
       /\ state.agents[j].type = "scientist" /\ state.agents[j].id[2] = "seed"
       /\ state.agents[k].type = "scp" /\ state.agents[k].id[2] = "rand"

\* The end condition as the claim states it.
EndCondition ==
  \/ state.timeStep >= 1000
  \/ ~ \E j \in DOMAIN state.agents :
         /\ state.agents[j].type = "scientist"
         /\ state.agents[j].health > 0
         /\ \A c \in DOMAIN Checkpoints(mapSize) :
              Dist2(state.agents[j].position, Checkpoints(mapSize)[c]) >= 4

\* C7: at the end of a tick's phases the evolution event is performed,
\* within that tick, exactly when timeStep >= 1000 or every escaper is dead
\* or within distance < 2 of a checkpoint.
C7_EndConditionEvolves ==
  [][pc = "endCheck" =>
       ((state'.generation = state.generation + 1) <=> EndCondition)]_vars

\* A tick ends at timeStep 1000 with an escaper alive and not escaped.
C7_Witness ==
  /\ pc = "endCheck"
  /\ state.timeStep >= 1000
  /\ \E j \in DOMAIN state.agents :
       /\ state.agents[j].type = "scientist" /\ state.agents[j].health > 0
       /\ ~hasEscaped(mapSize, state.agents[j])

\* The door d reaches full progress in the tick that starts now.
ReachesOne(d) ==
  /\ state.doors[d].interactingAgent # Null
  /\ state.doors[d].interactionProgress + 1 >= doorInteractionTime

\* C8: interactionProgress stays within [0, 1]; in a tick, updateDoors
\* advances a claimed door by 1/doorInteractionTime, and a door that reaches
\* 1 is toggled, set back to 0 and released; isOpen changes in that tick
\* and in no other, once.
C8_DoorProgress ==
  /\ [](\A d \in DOMAIN state.doors :
          state.doors[d].interactionProgress \in 0..doorInteractionTime)
  /\ [][TickStep =>
          \A d \in DOMAIN state.doors :
            LET door == state.doors[d]
                mid == updateDoors(state).doors[d]
            IN /\ (door.interactingAgent # Null /\ ~ReachesOne(d)) =>
                    /\ mid.interactionProgress = door.interactionProgress + 1
                    /\ mid.isOpen = door.isOpen
                    /\ mid.interactingAgent = door.interactingAgent
               /\ ReachesOne(d) =>
                    /\ mid.isOpen # door.isOpen
                    /\ mid.interactionProgress = 0
                    /\ mid.interactingAgent = Null
                    /\ state'.doors[d].interactionProgress = 0
               /\ (state'.doors[d].isOpen # door.isOpen) <=> ReachesOne(d)]_vars

\* A tick starts in which a claimed door reaches full progress, having been
\* held for doorInteractionTime - 1 ticks.
C8_Witness ==
  /\ pc = "tick"
  /\ \E d \in DOMAIN state.doors :
       ReachesOne(d) /\ state.doors[d].interactionProgress = doorInteractionTime - 1

\* C9 (as claimed): no call of update() raises an error.
C9_UpdateNeverThrows == ~(outcome.op = "update" /\ outcome.error)

\* The scps (scientists) living in pre within melee range of agent j.
FoesInMelee(pre, j, type) ==
  {k \in DOMAIN pre :
     /\ pre[k].type = type /\ pre[k].health > 0
     /\ Dist2(pre[k].position, pre[j].position) < 4}

\* C10: in the combat phase every pair of a pursuer and an escaper that are
\* both alive when the phase starts and nearer than 2 costs the escaper 10
\* health, not below 0, and earns the pursuer 10 fitness; nothing else
\* changes, so a dead agent and a pair at distance >= 2 have no effect.
C10_Combat ==
  pc = "endCheck" =>
    /\ DOMAIN fight = DOMAIN state.agents
    /\ \A j \in DOMAIN fight :
         LET pre == fight[j]
             post == state.agents[j]
             hits == Cardinality(FoesInMelee(fight, j, "scp"))
             wins == Cardinality(FoesInMelee(fight, j, "scientist"))
         IN /\ post.health >= 0
            /\ post = [pre EXCEPT
                 !.health = IF pre.type = "scientist" /\ pre.health > 0
                            THEN Max(0, @ - 10 * hits) ELSE @,
                 !.fitness = IF pre.type = "scp" /\ pre.health > 0
                             THEN @ + 10 * wins * FitUnit ELSE @]

\* An escaper with 10 health left was nearer than 2 to two living pursuers
\* in the combat phase of the tick just run: it is dead, its health is 0,
\* and both pursuers were rewarded.
C10_Witness ==
  /\ pc = "endCheck"
  /\ \E j, k, m \in DOMAIN fight :
       /\ fight[j].type = "scientist" /\ fight[j].health = 10
       /\ k # m /\ {k, m} \subseteq FoesInMelee(fight, j, "scp")
       /\ state.agents[j].health = 0
       /\ state.agents[k].fitness = fight[k].fitness + 10 * FitUnit
       /\ state.agents[m].fitness = fight[m].fitness + 10 * FitUnit

\* The categories the claim tests at sample k of ray r of agent a.
WallNear(size, st, a, r, k) ==
  WallAt(size, CheckX(st.agents[a], r, k), CheckY(st.agents[a], r, k))

ClosedDoorNear(st, a, r, k) ==
  \E d \in DOMAIN st.doors :
    /\ ~st.doors[d].isOpen
    /\ Within(st.doors[d].position, CheckX(st.agents[a], r, k),
              CheckY(st.agents[a], r, k), 1)

CheckpointNear(size, st, a, r, k) ==
  CheckpointAt(size, CheckX(st.agents[a], r, k), CheckY(st.agents[a], r, k))

OtherAgentsNear(st, a, r, k) ==
  {j \in DOMAIN st.agents :
     /\ j # a
     /\ Within(st.agents[j].position, CheckX(st.agents[a], r, k),
               CheckY(st.agents[a], r, k), 1)}

AnyCategory(size, st, a, r, k) ==
  \/ WallNear(size, st, a, r, k) \/ ClosedDoorNear(st, a, r, k)
  \/ CheckpointNear(size, st, a, r, k) \/ OtherAgentsNear(st, a, r, k) # {}

\* The hit of ray r of agent a in st is the one the claim's priority gives.
HitByPriority(size, st, a, r) ==
  LET hit == castVisionRay(size, st, a, r)
      k == hit.distance
  IN /\ \A e \in 1..(k - 1) : ~AnyCategory(size, st, a, r, e)
     /\ IF hit.type = "none"
        THEN k = visionRange * StepsPerUnit /\ ~AnyCategory(size, st, a, r, k)
        ELSE IF WallNear(size, st, a, r, k) THEN hit.type = "wall"
        ELSE IF ClosedDoorNear(st, a, r, k) THEN hit.type = "door"
        ELSE IF CheckpointNear(size, st, a, r, k) THEN hit.type = "checkpoint"
        ELSE \E j \in OtherAgentsNear(st, a, r, k) : hit.type = st.agents[j].type

\* C11: whenever an agent casts a ray, the ray ends at the first sample at
\* which a wall, a closed door, a checkpoint or another agent is near, with
\* the type of the first of these categories that is: wall before closed
\* door, and an open door never ends it.
C11_RayPriority ==
  pc = "tick" =>
    \A v \in Visits(mapSize, state), r \in Rays :
      HitByPriority(mapSize, v[2], v[1], r)

\* An agent casts a ray that reaches a sample within 0.5 of a wall cell and
\* of a closed door at once, and the ray says wall.
C11_Witness ==
  /\ pc = "tick"
  /\ \E v \in Visits(mapSize, state), r \in Rays :
       LET hit == castVisionRay(mapSize, v[2], v[1], r)
       IN /\ hit.type = "wall"
          /\ WallNear(mapSize, v[2], v[1], r, hit.distance)
          /\ ClosedDoorNear(v[2], v[1], r, hit.distance)

\* C12 (as claimed): within a generation no agent's fitness is lower after
\* a tick than before it.
C12_FitnessNeverDecreases ==
  [][TickStep =>
       \A j \in DOMAIN state.agents :
         state'.agents[j].fitness >= state.agents[j].fitness]_vars

\* A step in which a call of update() returns.
UpdateReturns ==
  /\ pc' = "idle" /\ outcome'.op = "update"
  /\ pc # "idle" \/ (batchSize' = batchSize /\ shouldRender' = shouldRender)

\* The ticks the call of update() that returns in this step has executed.
TicksRun ==
  IF pc = "idle" THEN 0 ELSE IF pc = "tick" THEN call.ticks + 1 ELSE call.ticks

\* C13 (as claimed): every call of update() executes at least 1 and at most
\* batchSize ticks, and batchSize never exceeds 50.
C13_TicksPerUpdate ==
  /\ [](batchSize <= 50)
  /\ [][UpdateReturns => (1 <= TicksRun /\ TicksRun <= batchSize)]_vars

\* C14: forward raises an error exactly when the length of the input vector
\* differs from the network's inputSize, and for an input of the right
\* length it returns outputSize (4) outputs.
C14_ForwardPrecondition ==
  probe.result # << >> =>
    /\ probe.result[1].threw <=> Len(probe.inputs) # probe.network.inputSize
    /\ ~probe.result[1].threw => Len(probe.result[1].outputs) = 4

\* forward has returned the outputs of an input of the right length, and
\* has raised for a longer one.
C14_Witness ==
  /\ probe.result # << >>
  /\ Len(probe.inputs) = probe.network.inputSize
  /\ ~probe.result[1].threw
  /\ \E c \in 1..4 : probe.result[1].outputs[c] # 0

\* The door step of agent a, visited in state st with outputs out: the
\* states before and after handleDoorInteraction.
BeforeDoorStep(size, st, a, out) == moveAgent(size, st, a, out)
AfterDoorStep(size, st, a, out) ==
  handleDoorInteraction(moveAgent(size, st, a, out), a, out)

\* The doors within doorInteractionRange of agent a once it has moved.
DoorsInReach(size, st, a, out) ==
  {d \in DOMAIN st.doors :
     distanceLt(BeforeDoorStep(size, st, a, out).agents[a].position,
                st.doors[d].position, doorInteractionRange)}

\* The agents that are visited alive with intent > 0.5 and door d in reach.
Contenders(size, seen, outs, d) ==
  {k \in DOMAIN seen :
     /\ seen[k].agents[k].health > 0
     /\ outs[k].interact > 5
     /\ d \in DoorsInReach(size, seen[k], k, outs[k])}

DoorClaimsOf(size, st, outs) ==
  LET start == PhaseStart(st)
      seen == StatesSeen(size, start, 1, outs)
      end == AgentsFrom(size, start, 1, outs).state
      holder(d) == st.doors[d].interactingAgent
  IN \A d \in DOMAIN st.doors :
       \* no door step takes a door from the agent that holds it
       /\ \A k \in DOMAIN seen :
            LET pre == BeforeDoorStep(size, seen[k], k, outs[k])
            IN (/\ seen[k].agents[k].health > 0
                /\ pre.doors[d].interactingAgent \notin {Null, pre.agents[k].id})
               => AfterDoorStep(size, seen[k], k, outs[k]).doors[d] = pre.doors[d]
       \* a claim changes hands only after the toggle or after its holder,
       \* earlier in the sequence, has dropped intent
       /\ (holder(d) # Null /\ end.doors[d].interactingAgent \notin {Null, holder(d)})
          => \/ ReachesOne(d)
             \/ \E h \in DOMAIN seen, k \in DOMAIN seen :
                  /\ h < k
                  /\ st.agents[h].id = holder(d)
                  /\ st.agents[h].health > 0 /\ outs[h].interact <= 5
                  /\ st.agents[k].id = end.doors[d].interactingAgent
       \* an unclaimed door goes to the earliest agent that wants it
       /\ LET wants == Contenders(size, seen, outs, d)
              first == CHOOSE k \in wants : \A j \in wants : k <= j
          IN (/\ start.doors[d].interactingAgent = Null
              /\ wants # {}
              /\ DoorsInReach(size, seen[first], first, outs[first]) = {d})
             => end.doors[d].interactingAgent = st.agents[first].id

\* C15: door claims are exclusive and resolved in agent sequence order: of
\* the agents with intent > 0.5 toward an unclaimed door in one tick the
\* earliest obtains the claim and no later agent overwrites it, and a
\* claimed door passes to another agent only after the toggle or after its
\* holder has dropped intent.
C15_DoorClaims ==
  pc = "tick" => \A outs \in OutputsOf(state.agents) :
                   DoorClaimsOf(mapSize, state, outs)

\* Two agents want the same unclaimed door in one tick, and the earlier one
\* holds it at the end of the agents' phase.
C15_Witness ==
  /\ pc = "tick"
  /\ \E outs \in OutputsOf(state.agents), d \in DOMAIN state.doors :
       LET start == PhaseStart(state)
           seen == StatesSeen(mapSize, start, 1, outs)
           wants == Contenders(mapSize, seen, outs, d)
       IN /\ start.doors[d].interactingAgent = Null
          /\ Cardinality(wants) >= 2
          /\ \E j \in wants :
               /\ \A k \in wants : j <= k
               /\ AgentsFrom(mapSize, start, 1, outs).state.doors[d].interactingAgent
                    = state.agents[j].id

\* Agent a, visited in state st with intent, has a door after its door step.
HasDoorAfter(size, st, a, out) ==
  \E d \in DOMAIN st.doors :
    AfterDoorStep(size, st, a, out).doors[d].interactingAgent = st.agents[a].id

\* C16: an agent with intent > 0.5 that claims or holds a door receives the
\* +30 door reward, and its lastDoorInteraction becomes the current
\* timeStep, if and only if timeStep - lastDoorInteraction >= 50; otherwise
\* the door step changes neither.
C16_DoorRewardDebounce ==
  pc = "tick" =>
    \A v \in Visits(mapSize, state), out \in Outputs :
      LET pre == BeforeDoorStep(mapSize, v[2], v[1], out).agents[v[1]]
          post == AfterDoorStep(mapSize, v[2], v[1], out).agents[v[1]]
      IN (out.interact > 5 /\ HasDoorAfter(mapSize, v[2], v[1], out))
         => IF v[2].timeStep - pre.lastDoorInteraction >= 50
            THEN /\ post.fitness = pre.fitness + 30 * FitUnit
                 /\ post.lastDoorInteraction = v[2].timeStep
            ELSE /\ post.fitness = pre.fitness
                 /\ post.lastDoorInteraction = pre.lastDoorInteraction

\* C17: when a living agent's door intent is <= 0.5, then after its door
\* step no door has it as interactingAgent, every door it held has
\* interactionProgress 0, its isInteracting is false, and the door step has
\* not changed its fitness.
C17_DroppedIntentReleases ==
  pc = "tick" =>
    \A v \in Visits(mapSize, state), out \in Outputs :
      LET pre == BeforeDoorStep(mapSize, v[2], v[1], out)
          post == AfterDoorStep(mapSize, v[2], v[1], out)
          id == pre.agents[v[1]].id
      IN out.interact <= 5
         => /\ \A d \in DOMAIN post.doors :
                 /\ post.doors[d].interactingAgent # id
                 /\ pre.doors[d].interactingAgent = id
                    => post.doors[d].interactionProgress = 0
            /\ ~post.agents[v[1]].isInteracting
            /\ post.agents[v[1]].fitness = pre.agents[v[1]].fitness

\* An agent that holds a door with progress made is visited without
\* intent, and its door step releases the door.
C17_Witness ==
  /\ pc = "tick"
  /\ \E v \in Visits(mapSize, state), d \in DOMAIN state.doors :
       LET post == AfterDoorStep(mapSize, v[2], v[1], Idle)
       IN /\ v[2].doors[d].interactingAgent = v[2].agents[v[1]].id
          /\ v[2].doors[d].interactionProgress > 0
          /\ v[2].agents[v[1]].isInteracting
          /\ post.doors[d].interactingAgent = Null
          /\ post.doors[d].interactionProgress = 0

\* The agents of a type, and the parent the claim names: of those with the
\* maximum fitness of the type, the earliest in the sequence.
OfType(agents, type) == {j \in DOMAIN agents : agents[j].type = type}

MaxFitness(agents, type) ==
  CHOOSE f \in {agents[j].fitness : j \in OfType(agents, type)} :
    \A j \in OfType(agents, type) : agents[j].fitness <= f

EarliestFittest(agents, type) ==
  CHOOSE j \in OfType(agents, type) :
    /\ agents[j].fitness = MaxFitness(agents, type)
    /\ \A k \in OfType(agents, type) :
         agents[k].fitness = MaxFitness(agents, type) => j <= k

\* The weights of child are a mutated copy of those of parent.
CopiesWeights(child, parent) ==
  \E draw \in Draws :
    child.network.weights =
      [l \in Layers |-> AddLayer(parent.network.weights[l], draw.mut.weights[l])]

\* C18: at a generation transition, every offspring of a type with a
\* non-empty population copies the network of the agent of that type with
\* the maximum fitness, the earliest in the sequence among those tied at
\* the maximum; only agents of the type enter the choice.
C18_ParentIsEarliestFittest ==
  [][EvolutionStep =>
       \A type \in {"scientist", "scp"} :
         OfType(state.agents, type) # {} =>
           \A c \in OfType(state'.agents, type) :
             CopiesWeights(state'.agents[c],
                           state.agents[EarliestFittest(state.agents, type)])]_vars

\* The first generation of two scientists and two scps has ended, and the
\* offspring of a type carry the weights of its second seed agent, which
\* was the fittest.
C18_Witness ==
  /\ pc = "loopCheck" /\ call.evolved = 1 /\ state.generation = 1
  /\ populationSize = 4
  /\ \E c \in DOMAIN state.agents :
       /\ state.agents[c].id[2] = "rand"
       /\ state.agents[c].network.weights[2] \in {ConstLayer(2), ConstLayer(4)}

\* C19: within one tick the percept vector of each agent is a function of
\* the state at the start of the agents' phase: whatever the outputs of the
\* agents processed before it, an agent perceives what it would perceive
\* had none of them moved yet.
C19_PerceptOfPhaseStart ==
  pc = "tick" =>
    \A v \in Visits(mapSize, state) :
      Percept(mapSize, v[2], v[1]) = Percept(mapSize, PhaseStart(state), v[1])

\* C20: a ray that ends at an agent ends at a different, living agent
\* (health > 0) within 0.5 of the sample point; a dead agent never ends a
\* ray.
C20_RayEndsAtLivingAgent ==
  pc = "tick" =>
    \A v \in Visits(mapSize, state), r \in Rays :
      LET hit == castVisionRay(mapSize, v[2], v[1], r)
      IN hit.type \in {"scientist", "scp"}
         => \E j \in OtherAgentsNear(v[2], v[1], r, hit.distance) :
              v[2].agents[j].health > 0

\* C21: for every agent, ray and snapshot, the worker's vision computation
\* returns the hit type and distance of the engine's castVisionRay,
\* checkpoints (which end a ray within 1.0 of the sample) included.
C21_WorkerVisionMatches ==
  pc = "tick" =>
    \A v \in Visits(mapSize, state) :
      workerGetAgentVision(mapSize, v[2], v[1]) = getAgentVision(mapSize, v[2], v[1])

\* The orb step of agent a, visited in state st with outputs out.
BeforeOrbStep(size, st, a, out) == AfterDoorStep(size, st, a, out)
AfterOrbStep(size, st, a, out) ==
  handleOrbCollection(AfterDoorStep(size, st, a, out), a)

\* The ids of the orbs within orbCollectionRange (2 units) of an agent.
OrbsInReach(st, agent) ==
  {st.orbs[o].id : o \in {o \in DOMAIN st.orbs :
                           Dist2(agent.position, st.orbs[o].position) < 2 * 2}}

OrbStepOf(size, st, a, out) ==
  LET pre == BeforeOrbStep(size, st, a, out)
      post == AfterOrbStep(size, st, a, out)
      new == OrbsInReach(pre, pre.agents[a]) \ pre.agents[a].collectedOrbs
  IN /\ post.orbs = pre.orbs
     /\ \A j \in DOMAIN pre.agents : j # a => post.agents[j] = pre.agents[j]
     /\ IF pre.agents[a].type = "scientist"
        THEN /\ post.agents[a].collectedOrbs = pre.agents[a].collectedOrbs \cup new
             /\ post.agents[a].fitness
                  = pre.agents[a].fitness + 50 * FitUnit * Cardinality(new)
        ELSE /\ post.agents[a] = pre.agents[a]
             /\ pre.agents[a].collectedOrbs = {}

\* C22: orb pickup is per agent.  No orb's collected flag is ever set; an
\* orb step gives a scientist +50 for each orb in reach that is not in its
\* own collected set, whatever the other scientists have collected, and
\* adds it to that set, so that it pays once; a scp collects nothing; and
\* within a generation no collected set loses an orb.
C22_OrbPickupPerAgent ==
  /\ [](/\ \A o \in DOMAIN state.orbs : ~state.orbs[o].collected
        /\ pc = "tick" =>
             \A v \in Visits(mapSize, state), out \in Outputs :
               OrbStepOf(mapSize, v[2], v[1], out))
  /\ [][TickStep =>
          \A j \in DOMAIN state.agents :
            state.agents[j].collectedOrbs \subseteq state'.agents[j].collectedOrbs]_vars

\* A scientist picks up the orb that the other scientist holds, and the
\* holder, still in reach of the orb, gains nothing by its own orb step.
C22_Witness ==
  /\ pc = "tick"
  /\ \E v \in Visits(mapSize, state), w \in Visits(mapSize, state) :
       LET pre == BeforeOrbStep(mapSize, v[2], v[1], Go)
           post == AfterOrbStep(mapSize, v[2], v[1], Go)
           held == BeforeOrbStep(mapSize, w[2], w[1], Idle)
           kept == AfterOrbStep(mapSize, w[2], w[1], Idle)
       IN /\ v[1] # w[1]
          /\ pre.agents[w[1]].collectedOrbs # {}
          /\ pre.agents[w[1]].collectedOrbs \subseteq OrbsInReach(pre, pre.agents[v[1]])
          /\ pre.agents[v[1]].collectedOrbs = {}
          /\ post.agents[v[1]].fitness = pre.agents[v[1]].fitness + 50 * FitUnit
          /\ held.agents[w[1]].collectedOrbs = OrbsInReach(held, held.agents[w[1]])
          /\ kept.agents[w[1]].fitness = held.agents[w[1]].fitness

\* C23: at the end of every tick, every living agent whose isInteracting
\* flag is set is the interactingAgent of at least one door: no agent that
\* moveAgent skips is without a door claim.
C23_InteractingAgentHoldsDoor ==
  pc \in {"endCheck", "loopCheck", "idle"} =>
    \A j \in DOMAIN state.agents :
      (state.agents[j].health > 0 /\ state.agents[j].isInteracting)
        => \E d \in DOMAIN state.doors :
             state.doors[d].interactingAgent = state.agents[j].id

\* The doors that carry the id of agent j in st.
DoorsOf(st, j) ==
  {d \in DOMAIN st.doors : st.doors[d].interactingAgent = st.agents[j].id}

\* C24: each agent id is the interactingAgent of at most one door, and an
\* agent that holds a claim acquires no second one by a door step, whatever
\* its outputs.
C24_AtMostOneDoorPerAgent ==
  /\ \A j \in DOMAIN state.agents : Cardinality(DoorsOf(state, j)) <= 1
  /\ pc = "tick" =>
       \A v \in Visits(mapSize, state), out \in Outputs \cup {Pull, PullLeft, PullRight} :
         Cardinality(DoorsOf(AfterDoorStep(mapSize, v[2], v[1], out), v[1])) <= 1

\* An agent that holds a door with progress made is visited with outputs
\* that would take it away, and after its door step it has that door only.
C24_Witness ==
  /\ pc = "tick"
  /\ \E v \in Visits(mapSize, state), d \in DOMAIN state.doors :
       /\ v[2].doors[d].interactingAgent = v[2].agents[v[1]].id
       /\ v[2].doors[d].interactionProgress > 1
       /\ DoorsOf(AfterDoorStep(mapSize, v[2], v[1], Pull), v[1]) = {d}
       /\ AfterDoorStep(mapSize, v[2], v[1], Pull).agents[v[1]].position
            = v[2].agents[v[1]].position

\* C25: between calls of update(), every door's interactingAgent that is
\* not null is the id of an agent of the current agent sequence that has
\* health > 0: no door is claimed by an agent that died or that a
\* generation transition discarded.
C25_ClaimantIsLivingAgent ==
  pc = "idle" =>
    \A d \in DOMAIN state.doors :
      state.doors[d].interactingAgent # Null
        => \E j \in DOMAIN state.agents :
             /\ state.agents[j].id = state.doors[d].interactingAgent
             /\ state.agents[j].health > 0

\* C26: a tick causes at most one evolution event, so that generation
\* grows by at most 1 per tick and per call of update(): when update()'s
\* own end check evolves, no evolution has happened in the call before.
C26_OneEvolutionPerTick ==
  [][(pc = "loopCheck" /\ state'.generation # state.generation)
       => call.evolved = 0]_vars

\* C27: a door without claimant (interactingAgent null) has
\* interactionProgress 0: progress is made only while the door is claimed,
\* and the toggle and the drop of intent both reset it.
C27_UnclaimedDoorHasNoProgress ==
  \A d \in DOMAIN state.doors :
    state.doors[d].interactingAgent = Null => state.doors[d].interactionProgress = 0

\* A tick in which a claimed door with progress made ends the agents' phase
\* without claimant and with progress 0: by its toggle, or by its holder's
\* dropping intent.
C27_Witness ==
  /\ pc = "tick"
  /\ \E d \in DOMAIN state.doors, outs \in OutputsOf(state.agents) :
       LET end == AgentsFrom(mapSize, PhaseStart(state), 1, outs).state
       IN /\ state.doors[d].interactingAgent # Null
          /\ state.doors[d].interactionProgress > 0
          /\ end.doors[d].interactingAgent = Null
          /\ end.doors[d].interactionProgress = 0
          /\ \/ end.doors[d].isOpen # state.doors[d].isOpen
             \/ ~ReachesOne(d)

\* C28: whenever update() is not running, 0 <= timeStep < 1000: no
\* generation lasts more than 1000 ticks, and no state with
\* timeStep >= 1000 is observable between calls of update().
C28_TimeStepBelowLimit ==
  pc = "idle" => (0 <= state.timeStep /\ state.timeStep < 1000)

====
